---------------------------- MODULE Spec2Model ----------------------------
(***************************************************************************)
(* T3P0: a two-player tic-tac-toe session protocol.                        *)
(*                                                                         *)
(*   src/src/request.rs     the 32-bit message (Request) and its codec     *)
(*   src/src/game_state.rs  GameState, compare_boards, validate_turn       *)
(*   src/src/player.rs      Player, an opaque 16-byte identity             *)
(*   src/src/main.rs        the store task and handle_connection           *)
(*                                                                         *)
(* A u32 is modelled as the set of the positions (0..31, 0 the least       *)
(* significant) of its 1 bits, so that bit 31 is representable and the     *)
(* shifts, masks, xors and ors of the code are computed bit by bit.        *)
(***************************************************************************)
EXTENDS Integers, Sequences, FiniteSets, TLC

VARIABLES
    \* ---- Request and constructor calls (SpecCodec)
    req,        \* the Request under test
    origin,     \* the Request the run started from
    steps,      \* successful increment_turn_and_message calls since origin
    res,        \* what the last call returned
    \* ---- GameState comparisons (SpecTurn, SpecBoards, SpecSeq)
    prev,       \* the GameState self
    next,       \* the GameState compared with it
    verdict,    \* what the last comparison returned
    \* ---- the server (Spec)
    conn,       \* per connection: where handle_connection stands, its locals
    out,        \* per connection: the frames written to the socket so far
    resp,       \* per connection: the response channel of its GetState
    queue,      \* the request channel (tx, rx) of the store task
    store,      \* game_state_map
    lastPut     \* history: per key, the state of the last UpdateState sent

codecVars == <<req, origin, steps, res>>
turnVars == <<prev, next, verdict>>

serverVars == <<conn, out, resp, queue, store, lastPut>>

vars == <<req, origin, steps, res, prev, next, verdict,
          conn, out, resp, queue, store, lastPut>>

(***************************************************************************)
(* u32 arithmetic on bit sets                                              *)
(***************************************************************************)
WordBits == 0 .. 31

\* the bits of a number below 2^31 (every number the code shifts into place)
NatToBits(n) == { i \in 0 .. 30 : n >= 2 ^ i /\ (n \div (2 ^ i)) % 2 = 1 }

\* the number a bit set below 2^31 stands for
RECURSIVE BitsToNat(_)
BitsToNat(S) ==
    IF S = {} THEN 0
    ELSE LET i == CHOOSE j \in S : TRUE
         IN  (2 ^ i) + BitsToNat(S \ {i})

Shl(S, k) == { i + k : i \in S } \cap WordBits
Shr(S, k) == { i - k : i \in { j \in S : j >= k } }
BitAnd(S, T) == S \cap T
BitOr(S, T) == S \cup T
BitXor(S, T) == (S \ T) \cup (T \ S)

\* `as u8`, `as u16`: truncation to the low bits
AsU8(S) == BitsToNat(S \cap (0 .. 7))
AsU16(S) == BitsToNat(S \cap (0 .. 15))

\* enum Bits
Bits_MessageNumber == 21
Bits_P2Turn == 26
Bits_TurnOffset == 27
Bits_MessageType == 31

\* enum Ranges
Ranges_Board == 9
Ranges_MessageNumber == 5
Ranges_Turn == 4

(***************************************************************************)
(* Results: Ok(v) and Err(e)                                               *)
(***************************************************************************)
Ok(v) == [ok |-> TRUE, val |-> v]
Err(e) == [ok |-> FALSE, err |-> e]

ErrMessageMax == "Trying to increment message number past maximum value."
ErrTurnMax == "Trying to increment turn number past maximum value."
ErrLessThanTurn == "Message number is less than turn number."
ErrOutOfSync == "Turn number and message number are not in sync."
ErrP2OnP1 == "Player 2 is trying to make a move on player 1's turn."
ErrP1OnP2 == "Player 1 is trying to make a move on player 2's turn."

(***************************************************************************)
(* impl DataRequest for Request                                            *)
(***************************************************************************)
new_data_request(is_ok) ==
    IF is_ok THEN Shl({0}, Bits_MessageType) ELSE {}

\* mutant: the turn is masked one bit too wide
get_turn_wide(r) ==
    AsU8(BitAnd(Shr(r, Bits_TurnOffset), NatToBits((2 ^ (Ranges_Turn + 1)) - 1)))

get_turn(r) ==
    AsU8(BitAnd(Shr(r, Bits_TurnOffset), NatToBits((2 ^ Ranges_Turn) - 1)))

get_board_state(r) ==
    AsU16(BitAnd(r, NatToBits((2 ^ Ranges_Board) - 1)))

get_is_p2_turn(r) ==
    BitAnd(Shr(r, Bits_P2Turn), {0}) = {0}

get_message_number(r) ==
    AsU8(BitAnd(Shr(r, Bits_MessageNumber),
                NatToBits((2 ^ Ranges_MessageNumber) - 1)))

RECURSIVE SwapBoardFrom(_, _)
SwapBoardFrom(output, i) ==
    IF i >= Ranges_Board THEN output
    ELSE SwapBoardFrom(BitXor(output, Shl({0}, i)), i + 1)

\* mutant: the loop over the board stops one cell early
swap_player_eight_cells(r) ==
    BitXor(BitXor(r, 0 .. Ranges_Board - 2), Shl({0}, Bits_P2Turn))

swap_player(r) ==
    BitXor(SwapBoardFrom(r, 0), Shl({0}, Bits_P2Turn))

\* mutant: the turn is not wrapped at 9
increment_no_wrap(r) ==
    LET turn == get_turn(r)
        message_number == get_message_number(r)
    IN  IF message_number + 1 >= 27
        THEN Err(ErrMessageMax)
        ELSE
          LET o1 == BitXor(r, Shl(NatToBits(turn), Bits_TurnOffset))
              o2 == BitOr(o1, Shl(NatToBits(turn + 1), Bits_TurnOffset))
              o3 == BitXor(o2, Shl(NatToBits(message_number), Bits_MessageNumber))
              o4 == BitOr(o3, Shl(NatToBits(message_number + 1), Bits_MessageNumber))
              o5 == BitXor(o4, Shl({0}, Bits_P2Turn))
          IN  Ok(o5)

\* mutant: the ceiling is tested with > instead of >=
increment_late_overflow(r) ==
    LET turn == get_turn(r)
        message_number == get_message_number(r)
    IN  IF message_number + 1 > 27
        THEN Err(ErrMessageMax)
        ELSE
          LET o1 == BitXor(r, Shl(NatToBits(turn), Bits_TurnOffset))
              o2 == BitOr(o1, Shl(NatToBits((turn + 1) % 9), Bits_TurnOffset))
              o3 == BitXor(o2, Shl(NatToBits(message_number), Bits_MessageNumber))
              o4 == BitOr(o3, Shl(NatToBits(message_number + 1), Bits_MessageNumber))
              o5 == BitXor(o4, Shl({0}, Bits_P2Turn))
          IN  Ok(o5)

\* mutant: the p2_turn bit is not flipped
increment_keep_player(r) ==
    LET turn == get_turn(r)
        message_number == get_message_number(r)
    IN  IF message_number + 1 >= 27
        THEN Err(ErrMessageMax)
        ELSE
          LET o1 == BitXor(r, Shl(NatToBits(turn), Bits_TurnOffset))
              o2 == BitOr(o1, Shl(NatToBits((turn + 1) % 9), Bits_TurnOffset))
              o3 == BitXor(o2, Shl(NatToBits(message_number), Bits_MessageNumber))
              o4 == BitOr(o3, Shl(NatToBits(message_number + 1), Bits_MessageNumber))
          IN  Ok(o4)

increment_turn_and_message(r) ==
    LET turn == get_turn(r)
        message_number == get_message_number(r)
    IN  IF message_number + 1 >= 27
        THEN Err(ErrMessageMax)
        ELSE
          LET o1 == BitXor(r, Shl(NatToBits(turn), Bits_TurnOffset))
              o2 == BitOr(o1, Shl(NatToBits((turn + 1) % 9), Bits_TurnOffset))
              o3 == BitXor(o2, Shl(NatToBits(message_number), Bits_MessageNumber))
              o4 == BitOr(o3, Shl(NatToBits(message_number + 1), Bits_MessageNumber))
              o5 == BitXor(o4, Shl({0}, Bits_P2Turn))
          IN  Ok(o5)

\* mutant: the turn ceiling is tested before the message_number ceiling
validate_request_turn_first(r) ==
    IF get_turn(r) >= 9 THEN Err(ErrTurnMax)
    ELSE IF get_message_number(r) >= 27 THEN Err(ErrMessageMax)
    ELSE IF get_message_number(r) < get_turn(r) THEN Err(ErrLessThanTurn)
    ELSE IF get_message_number(r) % 9 # get_turn(r) THEN Err(ErrOutOfSync)
    ELSE IF get_message_number(r) % 2 = 0 /\ get_is_p2_turn(r) THEN Err(ErrP2OnP1)
    ELSE IF get_message_number(r) % 2 = 1 /\ ~get_is_p2_turn(r) THEN Err(ErrP1OnP2)
    ELSE Ok("unit")

validate_request(r) ==
    IF get_message_number(r) >= 27 THEN Err(ErrMessageMax)
    ELSE IF get_turn(r) >= 9 THEN Err(ErrTurnMax)
    ELSE IF get_message_number(r) < get_turn(r) THEN Err(ErrLessThanTurn)
    ELSE IF get_message_number(r) % 9 # get_turn(r) THEN Err(ErrOutOfSync)
    ELSE IF get_message_number(r) % 2 = 0 /\ get_is_p2_turn(r) THEN Err(ErrP2OnP1)
    ELSE IF get_message_number(r) % 2 = 1 /\ ~get_is_p2_turn(r) THEN Err(ErrP1OnP2)
    ELSE Ok("unit")

\* mutant: only the message_type bit is looked at
is_ok_response_type_bit(r) ==
    Bits_MessageType \in r

\* mutant: the board bits are masked away before the comparison
is_ok_response_board_masked(r) ==
    BitAnd(r, WordBits \ (0 .. Ranges_Board - 1)) = Shl({0}, Bits_MessageType)

is_ok_response(r) ==
    BitAnd(r, WordBits) = Shl({0}, Bits_MessageType)

(***************************************************************************)
(* Player: an opaque identity; Player::new() draws a fresh one             *)
(***************************************************************************)
NoPlayers == <<>>

(***************************************************************************)
(* impl GameStateTrait for GameState                                       *)
(***************************************************************************)
Cells == 0 .. 8

\* mutant: a new session starts with player 1 to move
GameState_new_p1_turn(player, players, fresh) ==
    [ players        |-> players,
      submitted_by   |-> IF player = NoPlayers THEN fresh ELSE player[1],
      turn           |-> 0,
      p2_turn        |-> FALSE,
      message_number |-> 0,
      board          |-> [i \in Cells |-> 0],
      request        |-> new_data_request(FALSE) ]

\* GameState::new(player, players). `fresh` is the identity Player::new()
\* returns when player is None.
GameState_new(player, players, fresh) ==
    [ players        |-> players,
      submitted_by   |-> IF player = NoPlayers THEN fresh ELSE player[1],
      turn           |-> 0,
      p2_turn        |-> TRUE,
      message_number |-> 0,
      board          |-> [i \in Cells |-> 0],
      request        |-> new_data_request(FALSE) ]

\* mutant: the board is decoded one bit off
from_request_shifted(request, player) ==
    LET v == validate_request(request)
        board_state == get_board_state(request)
    IN  IF ~v.ok THEN v
        ELSE Ok([ players        |-> NoPlayers,
                  submitted_by   |-> player,
                  board          |-> [i \in Cells |->
                                        ((board_state \div (2 ^ (i + 1))) % 256) % 2],
                  turn           |-> get_turn(request),
                  message_number |-> get_message_number(request),
                  p2_turn        |-> get_is_p2_turn(request),
                  request        |-> request ])

from_request(request, player) ==
    LET v == validate_request(request)
        board_state == get_board_state(request)
    IN  IF ~v.ok THEN v
        ELSE Ok([ players        |-> NoPlayers,
                  submitted_by   |-> player,
                  board          |-> [i \in Cells |->
                                        ((board_state \div (2 ^ i)) % 256) % 2],
                  turn           |-> get_turn(request),
                  message_number |-> get_message_number(request),
                  p2_turn        |-> get_is_p2_turn(request),
                  request        |-> request ])

\* mutant: a changed cell that was occupied is counted, not rejected
RECURSIVE CompareBoardsCountOnly(_, _, _, _)
CompareBoardsCountOnly(self, other, i, differences) ==
    IF i >= 9 THEN differences = 1
    ELSE CompareBoardsCountOnly(self, other, i + 1,
             IF self.board[i] # other.board[i] THEN differences + 1
             ELSE differences)

RECURSIVE CompareBoardsFrom(_, _, _, _)
CompareBoardsFrom(self, other, i, differences) ==
    IF i >= 9 THEN differences = 1
    ELSE IF self.board[i] # 0 /\ self.board[i] # other.board[i] THEN FALSE
    ELSE CompareBoardsFrom(self, other, i + 1,
             IF self.board[i] # other.board[i] THEN differences + 1
             ELSE differences)

\* mutant of compare_boards: see CompareBoardsCountOnly
compare_boards_count_only(self, other) == CompareBoardsCountOnly(self, other, 0, 0)

compare_boards(self, other) == CompareBoardsFrom(self, other, 0, 0)

Contains(players, p) == \E i \in DOMAIN players : players[i] = p

\* mutant: the submitter of the new state is not compared with the previous one
validate_turn_same_submitter(self, game_state) ==
    IF self.turn + 1 # game_state.turn THEN Ok(FALSE)
    ELSE IF self.p2_turn = game_state.p2_turn THEN Ok(FALSE)
    ELSE IF self.message_number + 1 # game_state.message_number THEN Ok(FALSE)
    ELSE IF self.players # NoPlayers /\ ~Contains(self.players, game_state.submitted_by)
         THEN Ok(FALSE)
    ELSE IF ~compare_boards(self, game_state) THEN Ok(FALSE)
    ELSE Ok(TRUE)

validate_turn(self, game_state) ==
    IF self.turn + 1 # game_state.turn THEN Ok(FALSE)
    ELSE IF self.p2_turn = game_state.p2_turn THEN Ok(FALSE)
    ELSE IF self.message_number + 1 # game_state.message_number THEN Ok(FALSE)
    ELSE IF self.submitted_by = game_state.submitted_by THEN Ok(FALSE)
    ELSE IF self.players # NoPlayers /\ ~Contains(self.players, game_state.submitted_by)
         THEN Ok(FALSE)
    ELSE IF ~compare_boards(self, game_state) THEN Ok(FALSE)
    ELSE Ok(TRUE)

\* mutant: the Request is packed again from the fields of the state
to_request_repacked(self) ==
    Shl(NatToBits(self.turn), Bits_TurnOffset)
      \cup Shl(NatToBits(self.message_number), Bits_MessageNumber)
      \cup (IF self.p2_turn THEN {Bits_P2Turn} ELSE {})
      \cup { i \in Cells : self.board[i] # 0 }

to_request(self) == self.request

(***************************************************************************)
(* Bounds of the model                                                     *)
(***************************************************************************)
\* player identities 1 .. NumPlayers
NumPlayers == 2
\* board samples of the Requests under test: the boards 0 .. MaxBoardSample
MaxBoardSample == 1

PlayerIds == 1 .. NumPlayers

\* Bits 0..20 and 31 of the sampled Requests: a few boards, the full board,
\* the message_type bit, and every board, reserved and message_type bit at once.
RestSamples ==
    { NatToBits(b) : b \in 0 .. MaxBoardSample }
      \cup { 0 .. 8, {31}, (0 .. 20) \cup {31} }

\* Every value of the turn, message_number and p2_turn fields, over RestSamples.
Encode(turn, message_number, p2, rest) ==
    Shl(NatToBits(turn), Bits_TurnOffset)
      \cup Shl(NatToBits(message_number), Bits_MessageNumber)
      \cup (IF p2 THEN {Bits_P2Turn} ELSE {})
      \cup rest

Requests ==
    { Encode(t, m, p, rest) :
        t \in 0 .. (2 ^ Ranges_Turn) - 1,
        m \in 0 .. (2 ^ Ranges_MessageNumber) - 1,
        p \in BOOLEAN,
        rest \in RestSamples }

NoRes == [op |-> "none"]

(***************************************************************************)
(* SpecCodec: one call of a Request method or of a GameState constructor   *)
(* on a Request drawn from Requests                                        *)
(***************************************************************************)
ServerIdle ==
    /\ conn = <<>>
    /\ out = <<>>
    /\ resp = <<>>
    /\ queue = <<>>
    /\ store = <<>>
    /\ lastPut = <<>>

TurnIdle ==
    /\ prev = NoRes
    /\ next = NoRes
    /\ verdict = NoRes
    /\ ServerIdle

InitCodec ==
    /\ req \in Requests
    /\ origin = req
    /\ steps = 0
    /\ res = NoRes
    /\ TurnIdle

CallValidate ==
    /\ res' = [op |-> "validate_request", arg |-> req, r |-> validate_request(req)]
    /\ UNCHANGED <<req, origin, steps, turnVars, serverVars>>

CallIncrement ==
    /\ res' = [op |-> "increment_turn_and_message", arg |-> req,
               r |-> increment_turn_and_message(req)]
    /\ UNCHANGED <<req, origin, steps, turnVars, serverVars>>

CallFromRequest ==
    \E p \in PlayerIds :
        /\ res' = [op |-> "from_request", arg |-> req, player |-> p,
                   r |-> from_request(req, p)]
        /\ UNCHANGED <<req, origin, steps, turnVars, serverVars>>

\* GameState::new as game_state_test calls it (no submitter: a fresh identity,
\* written 0) and as handle_connection calls it (the connection's player)
CallNew ==
    \E player \in {NoPlayers, <<1>>} :
        /\ res' = [op |-> "new", player |-> player, players |-> <<1, 2>>,
                   r |-> Ok(GameState_new(player, <<1, 2>>, 0))]
        /\ UNCHANGED <<req, origin, steps, turnVars, serverVars>>

\* GameState::from_request(request, player)?.to_request()
CallToRequest ==
    \E p \in PlayerIds :
        LET game_state == from_request(req, p)
        IN  /\ game_state.ok
            /\ res' = [op |-> "to_request", arg |-> req, player |-> p,
                       r |-> to_request(game_state.val)]
            /\ UNCHANGED <<req, origin, steps, turnVars, serverVars>>

\* GameState::new(player, players).to_request()
CallNewToRequest ==
    \E player \in {NoPlayers, <<1>>} :
        /\ res' = [op |-> "new_to_request", player |-> player,
                   r |-> to_request(GameState_new(player, <<1, 2>>, 0))]
        /\ UNCHANGED <<req, origin, steps, turnVars, serverVars>>

\* r.validate_request(), then r.increment_turn_and_message() and
\* validate_request() of the Request it returns
CallStepValidate ==
    LET step == increment_turn_and_message(req)
    IN  /\ res' = [op |-> "step_validate", arg |-> req,
                   before |-> validate_request(req),
                   step |-> step,
                   after |-> IF step.ok THEN validate_request(step.val)
                             ELSE step]
        /\ UNCHANGED <<req, origin, steps, turnVars, serverVars>>

NextCodec ==
    \/ CallStepValidate
    \/ CallValidate
    \/ CallIncrement
    \/ CallFromRequest
    \/ CallNew
    \/ CallToRequest
    \/ CallNewToRequest

SpecCodec == InitCodec /\ [][NextCodec]_vars

(***************************************************************************)
(* SpecStep: r = r.increment_turn_and_message()? repeated from a Request   *)
(* whose turn and message_number are 0, as the tests of request.rs do      *)
(***************************************************************************)
InitStep ==
    /\ req \in { Encode(0, 0, FALSE, rest) : rest \in RestSamples }
    /\ origin = req
    /\ steps = 0
    /\ res = NoRes
    /\ TurnIdle

StepIncrement ==
    LET r == increment_turn_and_message(req)
    IN  /\ res' = [op |-> "increment_turn_and_message", arg |-> req, r |-> r]
        /\ req' = IF r.ok THEN r.val ELSE req
        /\ steps' = IF r.ok THEN steps + 1 ELSE steps
        /\ UNCHANGED <<origin, turnVars, serverVars>>

StepValidate ==
    /\ res' = [op |-> "validate_request", arg |-> req, r |-> validate_request(req)]
    /\ UNCHANGED <<req, origin, steps, turnVars, serverVars>>

NextStep ==
    \/ StepIncrement
    \/ StepValidate

SpecStep == InitStep /\ [][NextStep]_vars

(***************************************************************************)
(* SpecBits: the getters, swap_player, is_ok_response and new_data_request *)
(* on a Request drawn from Requests or on the Request of the test          *)
(* is_ok_format_issue; the getters also on the Request with one bit        *)
(* changed.  One call per Request.                                         *)
(***************************************************************************)
\* Request(1 << Bits::MessageType as u32 | 1)
FormatIssue == BitOr(Shl({0}, Bits_MessageType), {0})

InitBits ==
    /\ req \in Requests \cup {FormatIssue}
    /\ origin = req
    /\ steps = 0
    /\ res = NoRes
    /\ TurnIdle

\* the four getters of a Request
Getters(r) ==
    [ turn |-> get_turn(r), message_number |-> get_message_number(r),
      board_state |-> get_board_state(r), is_p2_turn |-> get_is_p2_turn(r) ]

\* the getters on req, and on req with bit b changed
CallGetters ==
    \E b \in WordBits :
        /\ res = NoRes
        /\ res' = [op |-> "getters", arg |-> req, bit |-> b,
                   r |-> Getters(req), changed |-> Getters(BitXor(req, {b}))]
        /\ UNCHANGED <<req, origin, steps, turnVars, serverVars>>

\* req.swap_player(), and req.swap_player().swap_player()
CallSwapPlayer ==
    /\ res = NoRes
    /\ res' = [op |-> "swap_player", arg |-> req, r |-> swap_player(req),
               back |-> swap_player(swap_player(req))]
    /\ UNCHANGED <<req, origin, steps, turnVars, serverVars>>

CallIsOkResponse ==
    /\ res = NoRes
    /\ res' = [op |-> "is_ok_response", arg |-> req, r |-> is_ok_response(req)]
    /\ UNCHANGED <<req, origin, steps, turnVars, serverVars>>

\* Request::new_data_request(is_ok), and is_ok_response() of what it returns
CallNewDataRequest ==
    \E is_ok \in BOOLEAN :
        /\ res = NoRes
        /\ res' = [op |-> "new_data_request", arg |-> is_ok,
                   r |-> new_data_request(is_ok),
                   ok |-> is_ok_response(new_data_request(is_ok))]
        /\ UNCHANGED <<req, origin, steps, turnVars, serverVars>>

NextBits ==
    \/ CallGetters
    \/ CallSwapPlayer
    \/ CallIsOkResponse
    \/ CallNewDataRequest

SpecBits == InitBits /\ [][NextBits]_vars

(***************************************************************************)
(* SpecTurn: validate_turn on two GameStates built as game_state_test      *)
(* builds them: GameState::new, then the fields assigned                   *)
(***************************************************************************)
\* turn and message_number of the sampled GameStates: 0 .. MaxField
MaxField == 2

CodecIdle ==
    /\ req = {}
    /\ origin = {}
    /\ steps = 0
    /\ res = NoRes
    /\ ServerIdle

\* Player::new(): an identity no other call returns
Fresh(k) == 0 - k

\* the two registered players of the tests, and one outsider
Registered == <<1, 2>>
Submitters == 1 .. NumPlayers + 1

\* boards that differ in cells 0 and 1 only
TurnBoards ==
    { [i \in Cells |-> IF i = 0 THEN a ELSE IF i = 1 THEN b ELSE 0] :
        a \in 0 .. 1, b \in 0 .. 1 }

TestState(players, submitted_by, turn, message_number, p2_turn, board) ==
    [ GameState_new(NoPlayers, players, Fresh(0)) EXCEPT
        !.submitted_by = submitted_by,
        !.turn = turn,
        !.message_number = message_number,
        !.p2_turn = p2_turn,
        !.board = board ]

InitTurn ==
    /\ CodecIdle
    /\ \E players \in {NoPlayers, Registered} :
         /\ prev \in { TestState(players, s, t, m, p, b) :
                         s \in Submitters, t \in 0 .. MaxField, m \in 0 .. MaxField,
                         p \in BOOLEAN, b \in TurnBoards }
         /\ next \in { TestState(players, s, t, m, p, b) :
                         s \in Submitters, t \in 0 .. MaxField, m \in 0 .. MaxField,
                         p \in BOOLEAN, b \in TurnBoards }
    /\ verdict = NoRes

CallValidateTurn ==
    /\ verdict' = [op |-> "validate_turn", r |-> validate_turn(prev, next)]
    /\ UNCHANGED <<codecVars, prev, next, serverVars>>

NextTurn == CallValidateTurn

SpecTurn == InitTurn /\ [][NextTurn]_vars

(***************************************************************************)
(* SpecBoards: compare_boards on two GameStates built as                   *)
(* test_compare_boards builds them: GameState::new, then cells assigned    *)
(***************************************************************************)
\* the assigned cells are 0 .. MaxLowCell and 8, their values 0 .. MaxCellValue
MaxLowCell == 1
MaxCellValue == 2

SampledCells == (0 .. MaxLowCell) \cup {8}

SampledBoards ==
    { [i \in Cells |-> IF i \in SampledCells THEN f[i] ELSE 0] :
        f \in [SampledCells -> 0 .. MaxCellValue] }

InitBoards ==
    /\ CodecIdle
    /\ prev \in { [GameState_new(NoPlayers, Registered, Fresh(0)) EXCEPT !.board = b] :
                    b \in SampledBoards }
    /\ next \in { [GameState_new(NoPlayers, Registered, Fresh(1)) EXCEPT !.board = b] :
                    b \in SampledBoards }
    /\ verdict = NoRes

CallCompareBoards ==
    /\ verdict' = [op |-> "compare_boards", r |-> compare_boards(prev, next)]
    /\ UNCHANGED <<codecVars, prev, next, serverVars>>

NextBoards == CallCompareBoards

SpecBoards == InitBoards /\ [][NextBoards]_vars

(***************************************************************************)
(* SpecSeq: the session sequence S0, S1, ...: each Request is the step of  *)
(* the one before with one empty cell occupied, decoded by from_request    *)
(* for the player who did not author the state before                      *)
(***************************************************************************)
OtherPlayer(p) == IF p = Registered[1] THEN Registered[2] ELSE Registered[1]

\* from_request, and the registration of the session kept in the state
Decoded(request, author, players) ==
    [from_request(request, author).val EXCEPT !.players = players]

InitSeq ==
    /\ req = new_data_request(FALSE)
    /\ origin = req
    /\ steps = 0
    /\ res = NoRes
    /\ ServerIdle
    /\ \E author \in {Registered[1], Registered[2]},
          players \in {NoPlayers, Registered} :
         /\ next = Decoded(req, author, players)
         /\ prev = next
    /\ verdict = NoRes

SeqMove ==
    \E c \in Cells :
        LET stepped == increment_turn_and_message(req)
            moved == BitOr(stepped.val, Shl({0}, c))
            author == OtherPlayer(next.submitted_by)
        IN  /\ next.board[c] = 0
            /\ stepped.ok
            /\ from_request(moved, author).ok
            /\ req' = moved
            /\ steps' = steps + 1
            /\ prev' = next
            /\ next' = Decoded(moved, author, next.players)
            /\ verdict' = [op |-> "validate_turn", r |-> validate_turn(next, next')]
            /\ UNCHANGED <<origin, res, serverVars>>

NextSeq == SeqMove

SpecSeq == InitSeq /\ [][NextSeq]_vars

(***************************************************************************)
(* Spec: the server of main.rs: the store task and one handle_connection   *)
(* task per accepted connection                                            *)
(***************************************************************************)
\* accepted connections 1 .. NumConns
NumConns == 2
\* 4-byte messages a connection reads in its event loop
MaxReads == 2

\* let mut buffer = [0u8; 4]
BufferLen == 4
\* mpsc::channel::<GameRequest>(32)
QueueCap == 32

Conns == 1 .. NumConns

\* The k-th identity Player::new() returns in connection c; the 0-th is the
\* connection's player.  No two calls return the same identity.
FreshPlayer(c, k) == <<c, k>>

\* u32::from_be_bytes and u32::to_be_bytes on 4 bytes b[1] .. b[4]
FromBeBytes(b) ==
    UNION { { 8 * (4 - j) + i : i \in NatToBits(b[j]) } : j \in 1 .. 4 }

ToBeBytes(r) ==
    [j \in 1 .. 4 |->
        BitsToNat({ i - 8 * (4 - j) : i \in r \cap (8 * (4 - j) .. 8 * (4 - j) + 7) })]

\* what socket.write sends: a Request, or the identity's to_bytes_le()
Frame4(r) == [len |-> 4, bytes |-> ToBeBytes(r)]
FrameId(p) == [len |-> 16, uuid_le |-> p]

\* What the clients send: the ack, the empty message, a first move
\* (turn 1, message_number 1, p2_turn, cell 0) and a message that fails
\* validate_request (p2_turn alone).
AckBytes == <<128, 0, 0, 0>>
EmptyBytes == <<0, 0, 0, 0>>
MoveBytes == <<12, 32, 0, 1>>
BadBytes == <<4, 0, 0, 0>>
HandshakeSamples == {AckBytes, EmptyBytes}
LoopSamples == {EmptyBytes, MoveBytes, BadBytes}

\* let mut uuid_buffer = [0u8; 16]
TokenLen == 16

\* A 16-byte identity token a client sends (a version 4 UUID), and the
\* identity Player::from_bytes makes of 16 bytes.
TokenBytes == <<0, 0, 0, 0, 0, 0, 64, 0, 128, 0, 0, 0, 0, 0, 0, 1>>
Player_from_bytes(bytes) == <<0, bytes>>

\* the next BufferLen bytes of the token when `pending` of its bytes are unread
TokenRest(pending) ==
    SubSeq(TokenBytes, TokenLen - pending + 1, TokenLen - pending + BufferLen)

\* HashMap::get(..).cloned() and HashMap::insert; Option is <<>> or <<v>>
MapGet(m, k) == IF k \in DOMAIN m THEN <<m[k]>> ELSE <<>>
MapInsert(m, k, v) == [x \in DOMAIN m \cup {k} |-> IF x = k THEN v ELSE m[x]]

\* mutant: rx.recv() hands out the newest request
DequeueNewest(q) == [request |-> q[Len(q)], rest |-> SubSeq(q, 1, Len(q) - 1)]

\* rx.recv(): the oldest request of the channel
Dequeue(q) == [request |-> Head(q), rest |-> Tail(q)]

\* enum GameRequest.  expect is history: the answer due to this GetState when
\* it was sent (the last UpdateState sent before it for its key).
GetState(player_id, response, expect) ==
    [type |-> "GetState", player_id |-> player_id, response |-> response,
     expect |-> expect]
UpdateState(player_id, new_state) ==
    [type |-> "UpdateState", player_id |-> player_id, new_state |-> new_state]

Init ==
    /\ req = {}
    /\ origin = {}
    /\ steps = 0
    /\ res = NoRes
    /\ prev = NoRes
    /\ next = NoRes
    /\ verdict = NoRes
    /\ conn = [c \in Conns |->
                 [pc |-> "hs0", player |-> FreshPlayer(c, 0), buffer |-> EmptyBytes,
                  reads |-> 0, allocs |-> 0, err |-> "", pending |-> 0,
                  frames |-> <<>>, n |-> 0]]
    /\ out = [c \in Conns |-> <<>>]
    /\ resp = [c \in Conns |-> <<>>]
    /\ queue = <<>>
    /\ store = <<>>
    /\ lastPut = <<>>

Fail(c, e) == [conn EXCEPT ![c].pc = "failed", ![c].err = e]

\* socket.read(&mut buffer) on the 4-byte buffer.  n is what it returns
\* (0: the client closed), bytes the buffer after it, frame the length of the
\* frame the client sent for this read (0: none, the bytes are the rest of an
\* earlier frame), pending the bytes of that frame still unread.  A client
\* sends 1 to 4 bytes of samples or, when token, the 16-byte token; what
\* does not fit the buffer stays in the stream for the next read.
SocketRead(c, samples, token) ==
    IF conn[c].pending > 0
    THEN { [n |-> BufferLen, bytes |-> TokenRest(conn[c].pending), frame |-> 0,
            pending |-> conn[c].pending - BufferLen] }
    ELSE { [n |-> n, bytes |-> b, frame |-> n, pending |-> 0] :
             n \in 0 .. BufferLen, b \in samples }
           \cup IF token
                THEN { [n |-> BufferLen, bytes |-> TokenRest(TokenLen),
                        frame |-> TokenLen, pending |-> TokenLen - BufferLen] }
                ELSE {}

\* mutant: the identity written to the client is another Player::new()
HandshakeArmFreshId(i, n, request, player) ==
    CASE n = 4 ->
           [err |-> "", adopt |-> FALSE,
            write |-> IF i = 0 /\ is_ok_response(request)
                      THEN <<FrameId(FreshPlayer(0, 0))>> ELSE <<>>]
      [] n = 16 ->
           IF i = 0
           THEN [err |-> "Invalid handshake message", adopt |-> FALSE, write |-> <<>>]
           ELSE [err |-> "", adopt |-> TRUE,
                 write |-> <<Frame4(new_data_request(TRUE))>>]
      [] OTHER ->
           [err |-> "Invalid handshake message", adopt |-> FALSE, write |-> <<>>]

\* the match on n of the handshake; i is the iteration of for i in 0..2
HandshakeArm(i, n, request, player) ==
    CASE n = 4 ->
           [err |-> "", adopt |-> FALSE,
            write |-> IF i = 0 /\ is_ok_response(request)
                      THEN <<FrameId(player)>> ELSE <<>>]
      [] n = 16 ->
           IF i = 0
           THEN [err |-> "Invalid handshake message", adopt |-> FALSE, write |-> <<>>]
           ELSE [err |-> "", adopt |-> TRUE,
                 write |-> <<Frame4(new_data_request(TRUE))>>]
      [] OTHER ->
           [err |-> "Invalid handshake message", adopt |-> FALSE, write |-> <<>>]

\* One iteration of the handshake.  socket.read fills the 4-byte buffer, so
\* n is 0 .. BufferLen whatever the client sent.  frames is history: the
\* lengths of the frames the client sent for the reads of the handshake.
HandshakeRead(c) ==
    \E in \in SocketRead(c, HandshakeSamples, TRUE) :
        LET i == IF conn[c].pc = "hs0" THEN 0 ELSE 1
            arm == HandshakeArm(i, in.n, FromBeBytes(in.bytes), conn[c].player)
            sent == IF in.n = 0 THEN conn[c].frames
                    ELSE Append(conn[c].frames, in.frame)
        IN  /\ conn[c].pc \in {"hs0", "hs1"}
            /\ IF in.n = 0
               THEN conn' = Fail(c, "Connection closed") /\ out' = out
               ELSE IF arm.err # ""
               THEN /\ conn' = [Fail(c, arm.err) EXCEPT ![c].frames = sent]
                    /\ out' = out
               ELSE /\ conn' = [conn EXCEPT
                                  ![c].pc = IF i = 0 THEN "hs1" ELSE "read",
                                  ![c].buffer = in.bytes,
                                  ![c].pending = in.pending,
                                  ![c].frames = sent,
                                  ![c].player =
                                      IF arm.adopt
                                      THEN Player_from_bytes(in.bytes \o
                                               TokenRest(TokenLen - BufferLen) \o
                                               TokenRest(TokenLen - 2 * BufferLen) \o
                                               TokenRest(TokenLen - 3 * BufferLen))
                                      ELSE @]
                    /\ out' = [out EXCEPT ![c] = @ \o arm.write]
            /\ UNCHANGED <<codecVars, turnVars, resp, queue, store, lastPut>>

\* mutant: a short read ends the event loop like a read of 0 bytes
LoopReadShortCloses(c) ==
    \E in \in SocketRead(c, LoopSamples, FALSE) :
        /\ conn[c].pc = "read"
        /\ IF in.n # 4
           THEN /\ conn' = [conn EXCEPT ![c].pc = "closed", ![c].n = in.n]
                /\ queue' = queue
           ELSE /\ conn[c].reads < MaxReads
                /\ Len(queue) < QueueCap
                /\ conn' = [conn EXCEPT ![c].pc = "wait", ![c].buffer = in.bytes,
                                        ![c].pending = in.pending,
                                        ![c].reads = @ + 1, ![c].n = in.n]
                /\ queue' = Append(queue,
                       GetState(conn[c].player, c, MapGet(lastPut, conn[c].player)))
        /\ UNCHANGED <<codecVars, turnVars, out, resp, store, lastPut>>

\* The read of the event loop, and for a 4-byte message the GetState sent.
\* n is history: what the last socket.read of the event loop returned.
LoopRead(c) ==
    \E in \in SocketRead(c, LoopSamples, FALSE) :
        /\ conn[c].pc = "read"
        /\ IF in.n = 0
           THEN /\ conn' = [conn EXCEPT ![c].pc = "closed", ![c].n = in.n]
                /\ queue' = queue
           ELSE IF in.n # 4
           THEN /\ conn' = [Fail(c, "Invalid request") EXCEPT ![c].n = in.n]
                /\ queue' = queue
           ELSE /\ conn[c].reads < MaxReads
                /\ Len(queue) < QueueCap
                /\ conn' = [conn EXCEPT ![c].pc = "wait", ![c].buffer = in.bytes,
                                        ![c].pending = in.pending,
                                        ![c].reads = @ + 1, ![c].n = in.n]
                /\ queue' = Append(queue,
                       GetState(conn[c].player, c, MapGet(lastPut, conn[c].player)))
        /\ UNCHANGED <<codecVars, turnVars, out, resp, store, lastPut>>

\* response_rx.recv()
RecvState(c) ==
    /\ conn[c].pc = "wait"
    /\ resp[c] # <<>>
    /\ conn' = [conn EXCEPT ![c].pc = IF resp[c][1].state = <<>> THEN "init" ELSE "put"]
    /\ resp' = [resp EXCEPT ![c] = <<>>]
    /\ UNCHANGED <<codecVars, turnVars, out, queue, store, lastPut>>

\* game_state.is_none(): a new session is written to the client and stored
InitPut(c) ==
    LET player == conn[c].player
        game_state == GameState_new(<<player>>,
                          <<player, FreshPlayer(c, conn[c].allocs + 1)>>, player)
    IN  /\ conn[c].pc = "init"
        /\ Len(queue) < QueueCap
        /\ out' = [out EXCEPT ![c] = Append(@, Frame4(to_request(game_state)))]
        /\ queue' = Append(queue, UpdateState(player, game_state))
        /\ lastPut' = MapInsert(lastPut, player, game_state)
        /\ conn' = [conn EXCEPT ![c].pc = "put", ![c].allocs = @ + 1]
        /\ UNCHANGED <<codecVars, turnVars, resp, store>>

\* mutant: no ack is written after the UpdateState
PutStateNoAck(c) ==
    LET player == conn[c].player
        new_state == from_request(FromBeBytes(conn[c].buffer),
                                  FreshPlayer(c, conn[c].allocs + 1))
    IN  /\ conn[c].pc = "put"
        /\ IF ~new_state.ok
           THEN /\ conn' = [Fail(c, new_state.err) EXCEPT ![c].allocs = @ + 1]
                /\ UNCHANGED <<out, queue, lastPut>>
           ELSE /\ Len(queue) < QueueCap
                /\ queue' = Append(queue, UpdateState(player, new_state.val))
                /\ lastPut' = MapInsert(lastPut, player, new_state.val)
                /\ out' = out
                /\ conn' = [conn EXCEPT ![c].pc = "read", ![c].allocs = @ + 1]
        /\ UNCHANGED <<codecVars, turnVars, resp, store>>

\* mutant: the ack is written before the message is decoded
PutStateAckFirst(c) ==
    LET player == conn[c].player
        new_state == from_request(FromBeBytes(conn[c].buffer),
                                  FreshPlayer(c, conn[c].allocs + 1))
    IN  /\ conn[c].pc = "put"
        /\ out' = [out EXCEPT ![c] = Append(@, Frame4(new_data_request(TRUE)))]
        /\ IF ~new_state.ok
           THEN /\ conn' = [Fail(c, new_state.err) EXCEPT ![c].allocs = @ + 1]
                /\ UNCHANGED <<queue, lastPut>>
           ELSE /\ Len(queue) < QueueCap
                /\ queue' = Append(queue, UpdateState(player, new_state.val))
                /\ lastPut' = MapInsert(lastPut, player, new_state.val)
                /\ conn' = [conn EXCEPT ![c].pc = "read", ![c].allocs = @ + 1]
        /\ UNCHANGED <<codecVars, turnVars, resp, store>>

\* the UpdateState of the message read, and the ack
PutState(c) ==
    LET player == conn[c].player
        new_state == from_request(FromBeBytes(conn[c].buffer),
                                  FreshPlayer(c, conn[c].allocs + 1))
    IN  /\ conn[c].pc = "put"
        /\ IF ~new_state.ok
           THEN /\ conn' = [Fail(c, new_state.err) EXCEPT ![c].allocs = @ + 1]
                /\ UNCHANGED <<out, queue, lastPut>>
           ELSE /\ Len(queue) < QueueCap
                /\ queue' = Append(queue, UpdateState(player, new_state.val))
                /\ lastPut' = MapInsert(lastPut, player, new_state.val)
                /\ out' = [out EXCEPT ![c] = Append(@, Frame4(new_data_request(TRUE)))]
                /\ conn' = [conn EXCEPT ![c].pc = "read", ![c].allocs = @ + 1]
        /\ UNCHANGED <<codecVars, turnVars, resp, store>>

\* mutant: the store task answers only when the key has a state
StoreGetStateSomeOnly ==
    LET request == Dequeue(queue).request
    IN  /\ queue # <<>>
        /\ request.type = "GetState"
        /\ queue' = Dequeue(queue).rest
        /\ resp' = IF MapGet(store, request.player_id) = <<>> THEN resp
                   ELSE [resp EXCEPT ![request.response] =
                           <<[state |-> MapGet(store, request.player_id),
                              expect |-> request.expect]>>]
        /\ UNCHANGED <<codecVars, turnVars, conn, out, store, lastPut>>

\* the store task: GameRequest::GetState
StoreGetState ==
    LET request == Dequeue(queue).request
    IN  /\ queue # <<>>
        /\ request.type = "GetState"
        /\ queue' = Dequeue(queue).rest
        /\ resp' = [resp EXCEPT ![request.response] =
                      <<[state |-> MapGet(store, request.player_id),
                         expect |-> request.expect]>>]
        /\ UNCHANGED <<codecVars, turnVars, conn, out, store, lastPut>>

\* the store task: GameRequest::UpdateState
StoreUpdateState ==
    LET request == Dequeue(queue).request
    IN  /\ queue # <<>>
        /\ request.type = "UpdateState"
        /\ queue' = Dequeue(queue).rest
        /\ store' = MapInsert(store, request.player_id, request.new_state)
        /\ UNCHANGED <<codecVars, turnVars, conn, out, resp, lastPut>>

Next ==
    \/ \E c \in Conns : HandshakeRead(c)
    \/ \E c \in Conns : LoopRead(c)
    \/ \E c \in Conns : RecvState(c)
    \/ \E c \in Conns : InitPut(c)
    \/ \E c \in Conns : PutState(c)
    \/ StoreGetState
    \/ StoreUpdateState

Spec == Init /\ [][Next]_vars

(***************************************************************************)
(* FairSpec: the event loops of the connections and the store task, from   *)
(* the state Spec is in when every client has sent the ack twice and every *)
(* handler has finished its handshake.  The tokio runtime keeps running    *)
(* every task that can proceed: the store task while the channel has a     *)
(* request, a handler once its await is ready.  The reads are left to the  *)
(* clients.                                                                *)
(***************************************************************************)
InitLoop ==
    /\ req = {}
    /\ origin = {}
    /\ steps = 0
    /\ res = NoRes
    /\ prev = NoRes
    /\ next = NoRes
    /\ verdict = NoRes
    /\ conn = [c \in Conns |->
                 [pc |-> "read", player |-> FreshPlayer(c, 0), buffer |-> AckBytes,
                  reads |-> 0, allocs |-> 0, err |-> "", pending |-> 0,
                  frames |-> <<BufferLen, BufferLen>>, n |-> 0]]
    /\ out = [c \in Conns |-> <<FrameId(FreshPlayer(c, 0))>>]
    /\ resp = [c \in Conns |-> <<>>]
    /\ queue = <<>>
    /\ store = <<>>
    /\ lastPut = <<>>

NextLoop ==
    \/ \E c \in Conns : LoopRead(c)
    \/ \E c \in Conns : RecvState(c)
    \/ \E c \in Conns : InitPut(c)
    \/ \E c \in Conns : PutState(c)
    \/ StoreGetState
    \/ StoreUpdateState

FairSpec ==
    /\ InitLoop
    /\ [][NextLoop]_vars
    /\ WF_vars(StoreGetState \/ StoreUpdateState)
    /\ \A c \in Conns : WF_vars(RecvState(c) \/ InitPut(c) \/ PutState(c))

(***************************************************************************)
(* The fields of a Request, read off its bits (section 3 of the spec)      *)
(***************************************************************************)
FieldTurn(r) == BitsToNat({ i - 27 : i \in r \cap (27 .. 30) })
FieldMessageNumber(r) == BitsToNat({ i - 21 : i \in r \cap (21 .. 25) })
FieldP2Turn(r) == 26 \in r

(***************************************************************************)
(* Claims on the Request methods and the GameState constructors            *)
(***************************************************************************)

\* The GameState invariants of section 3 of the spec.
GameStateInvariants(g) ==
    /\ g.message_number % 9 = g.turn
    /\ g.p2_turn = (g.message_number % 2 = 1)
    /\ g.turn < 9
    /\ g.message_number < 27

\* C5 (as claimed): every GameState a constructor (new, from_request) returns
\* satisfies the GameState invariants: message_number % 9 = turn, p2_turn is
\* false for an even and true for an odd message_number, turn < 9 and
\* message_number < 27.  GameState::new breaks it: message_number 0, p2_turn true.
C5_ConstructorsKeepInvariants ==
    (res.op \in {"new", "from_request"} /\ res.r.ok)
        => GameStateInvariants(res.r.val)

\* The error of the first rule of validate that fails, in the order
\* message_number < 27; turn < 9; message_number >= turn;
\* message_number % 9 = turn; parity of message_number against p2_turn.
C6_FirstFailingRule(r) ==
    LET m == FieldMessageNumber(r)
        t == FieldTurn(r)
        p == FieldP2Turn(r)
        rules == << <<m < 27, ErrMessageMax>>,
                    <<t < 9, ErrTurnMax>>,
                    <<m >= t, ErrLessThanTurn>>,
                    <<m % 9 = t, ErrOutOfSync>>,
                    <<p = (m % 2 = 1), IF p THEN ErrP2OnP1 ELSE ErrP1OnP2>> >>
        failing == { k \in DOMAIN rules : ~rules[k][1] }
    IN  IF failing = {} THEN "none"
        ELSE rules[CHOOSE k \in failing : \A j \in failing : k <= j][2]

\* C6: validate_request(m) is Ok exactly when message_number < 27, turn < 9,
\* message_number >= turn, message_number % 9 = turn and p2_turn is false for
\* an even and true for an odd message_number; when it fails, its error is
\* the one of the first of these rules, in this order, that fails.
C6_ValidateRules ==
    res.op = "validate_request" =>
        LET m == FieldMessageNumber(res.arg)
            t == FieldTurn(res.arg)
            p == FieldP2Turn(res.arg)
        IN  /\ res.r.ok <=> (m < 27 /\ t < 9 /\ m >= t /\ m % 9 = t
                               /\ p = (m % 2 = 1))
            /\ ~res.r.ok => res.r.err = C6_FirstFailingRule(res.arg)

\* C6 witness: validate has failed on a Request that breaks the first two
\* rules at once (message_number >= 27 and turn >= 9).
C6_Witness ==
    /\ res.op = "validate_request"
    /\ ~res.r.ok
    /\ FieldMessageNumber(res.arg) >= 27
    /\ FieldTurn(res.arg) >= 9

\* The Request the step must return: turn + 1 mod 9, message_number + 1,
\* p2_turn flipped, bits 0..20 and 31 as they were.
C7_Stepped(m) ==
    (m \ (21 .. 30))
      \cup { 27 + i : i \in NatToBits((FieldTurn(m) + 1) % 9) }
      \cup { 21 + i : i \in NatToBits(FieldMessageNumber(m) + 1) }
      \cup (IF 26 \in m THEN {} ELSE {26})

C8_StepSequence ==
    /\ steps <= 26
    /\ FieldMessageNumber(req) = steps
    /\ FieldTurn(req) = steps % 9
    /\ FieldP2Turn(req) = (steps % 2 = 1)
    /\ res.op = "increment_turn_and_message" =>
          /\ res.r.ok <=> FieldMessageNumber(res.arg) # 26
          /\ ~res.r.ok => res.r.err = ErrMessageMax /\ steps = 26

\* C8 witness: from the empty Request, 26 steps succeeded and the 27th failed.
C8_Witness ==
    /\ origin = new_data_request(FALSE)
    /\ steps = 26
    /\ res.op = "increment_turn_and_message"
    /\ ~res.r.ok

\* C10: from_request(m, submitter) fails, with validate_request's error,
\* exactly when validate_request(m) fails; otherwise it returns a GameState
\* with board[i] = bit i of m for i in 0..8, turn, message_number and p2_turn
\* equal to m's fields, submitted_by = submitter and no registered players.
C10_FromRequest ==
    res.op = "from_request" =>
        LET v == validate_request(res.arg)
        IN  /\ res.r.ok <=> v.ok
            /\ ~v.ok => res.r = v
            /\ v.ok =>
                  /\ \A i \in 0 .. 8 :
                        res.r.val.board[i] = (IF i \in res.arg THEN 1 ELSE 0)
                  /\ res.r.val.turn = FieldTurn(res.arg)
                  /\ res.r.val.message_number = FieldMessageNumber(res.arg)
                  /\ res.r.val.p2_turn = FieldP2Turn(res.arg)
                  /\ res.r.val.submitted_by = res.player
                  /\ res.r.val.players = NoPlayers

\* C10 witness: from_request has decoded a valid Request (message_number 10,
\* turn 1) with bits 0 and 8 of the board set and garbage in the reserved bits.
C10_Witness ==
    /\ res.op = "from_request"
    /\ res.r.ok
    /\ res.r.val.message_number = 10
    /\ res.r.val.board[0] = 1 /\ res.r.val.board[8] = 1
    /\ 9 \in res.arg

\* C11: for every Request m that passes validate_request and every submitter,
\* from_request(m, submitter).to_request() is m, bit for bit (reserved bits
\* and message_type included); GameState::new(..).to_request() is the
\* all-zero Request.
C11_RoundTrip ==
    /\ res.op = "to_request" => res.r = res.arg
    /\ res.op = "new_to_request" => res.r = {}

\* C11 witness: a valid Request with reserved bits and the message_type bit
\* set came back from to_request.
C11_Witness ==
    /\ res.op = "to_request"
    /\ {20, 31} \subseteq res.arg
    /\ FieldMessageNumber(res.arg) = 10
    /\ res.r = res.arg

\* the bits of the fields of section 3 of the spec
BoardBits == 0 .. 8
MessageNumberBits == 21 .. 25
P2TurnBits == {26}
TurnBits == 27 .. 30
MessageTypeBits == {31}

\* C12: swap_player(m) differs from m in exactly the 9 board bits and the
\* p2_turn bit, each flipped, with turn, message_number, message_type and the
\* reserved bits unchanged; and swap_player(swap_player(m)) = m.
C12_SwapPlayer ==
    res.op = "swap_player" =>
        /\ (res.r \ res.arg) \cup (res.arg \ res.r) = BoardBits \cup P2TurnBits
        /\ \A i \in WordBits \ (BoardBits \cup P2TurnBits) :
              (i \in res.r) = (i \in res.arg)
        /\ res.back = res.arg

\* C12 witness: swap_player on a Request with cell 0 occupied, the p2_turn
\* bit set and turn 15.
C12_Witness ==
    /\ res.op = "swap_player"
    /\ res.arg \cap BoardBits = {0}
    /\ 26 \in res.arg
    /\ TurnBits \subseteq res.arg
    /\ res.r \cap (BoardBits \cup P2TurnBits) = 1 .. 8

\* C13: get_turn returns bits 27..30, get_message_number bits 21..25,
\* get_board_state bits 0..8 and get_is_p2_turn bit 26 of the Request, and
\* changing a bit outside a field never changes what the field's getter returns.
C13_Getters ==
    res.op = "getters" =>
        /\ res.r.turn = BitsToNat({ i - 27 : i \in res.arg \cap TurnBits })
        /\ res.r.message_number =
              BitsToNat({ i - 21 : i \in res.arg \cap MessageNumberBits })
        /\ res.r.board_state = BitsToNat(res.arg \cap BoardBits)
        /\ res.r.is_p2_turn = (26 \in res.arg)
        /\ res.bit \notin TurnBits => res.changed.turn = res.r.turn
        /\ res.bit \notin MessageNumberBits =>
              res.changed.message_number = res.r.message_number
        /\ res.bit \notin BoardBits => res.changed.board_state = res.r.board_state
        /\ res.bit \notin P2TurnBits => res.changed.is_p2_turn = res.r.is_p2_turn

\* C13 witness: the getters on a Request with every field, every reserved bit
\* and the message_type bit set, and on the same Request without bit 31.
C13_Witness ==
    /\ res.op = "getters"
    /\ res.arg = WordBits
    /\ res.bit = 31
    /\ res.r.turn = 15
    /\ res.changed.turn = 15

\* C14: is_ok_response is true exactly for the Request whose only set bit is
\* message_type, which is what new_data_request(true) returns; it is false
\* for the empty Request and for a Request with the message_type bit and any
\* other bit set.
C14_IsOkResponse ==
    /\ res.op = "is_ok_response" => (res.r <=> res.arg = MessageTypeBits)
    /\ res.op = "new_data_request" =>
          /\ res.r = (IF res.arg THEN MessageTypeBits ELSE {})
          /\ res.ok = res.arg

\* C14 witness: is_ok_response returned false for the Request of
\* is_ok_format_issue (message_type and bit 0).
C14_Witness ==
    /\ res.op = "is_ok_response"
    /\ res.arg = {0, 31}
    /\ ~res.r

\* C15 (as claimed): is_ok_response returns bit 31 of the Request, whatever
\* the other bits are.
C15_IsAckPureExtraction ==
    res.op = "is_ok_response" => (res.r = (31 \in res.arg))

\* C15 (amended): is_ok_response returns bit 31 only when no bit outside the
\* message_type field is set; when any other bit is set it returns false
\* whatever bit 31 is.
C15_IsAckNoOtherBit ==
    res.op = "is_ok_response" =>
        /\ (res.arg \ MessageTypeBits = {}) => (res.r = (31 \in res.arg))
        /\ (res.arg \ MessageTypeBits # {}) => ~res.r

\* C15 witness: bit 31 set together with bits of every other field, and
\* is_ok_response returned false.
C15_Witness ==
    /\ res.op = "is_ok_response"
    /\ 31 \in res.arg
    /\ res.arg \cap BoardBits # {}
    /\ res.arg \cap TurnBits # {}
    /\ ~res.r

(***************************************************************************)
(* Claims on validate_turn and compare_boards                              *)
(***************************************************************************)

\* C3: validate_turn(prev, next) returns Ok(true) exactly when
\* next.turn = prev.turn + 1, next.p2_turn # prev.p2_turn,
\* next.message_number = prev.message_number + 1,
\* next.submitted_by # prev.submitted_by, next.submitted_by is one of
\* prev.players when prev.players is known, and compare_boards(prev, next);
\* otherwise it returns Ok(false); it never returns an error.
C3_ValidateTurn ==
    verdict.op = "validate_turn" =>
        /\ verdict.r.ok
        /\ verdict.r.val \in BOOLEAN
        /\ verdict.r.val <=>
              /\ next.turn = prev.turn + 1
              /\ next.p2_turn # prev.p2_turn
              /\ next.message_number = prev.message_number + 1
              /\ next.submitted_by # prev.submitted_by
              /\ prev.players # NoPlayers =>
                    next.submitted_by \in { prev.players[k] : k \in DOMAIN prev.players }
              /\ compare_boards(prev, next)

\* C3 witness: validate_turn returned Ok(true) for a state whose players are
\* registered.
C3_Witness ==
    /\ verdict.op = "validate_turn"
    /\ verdict.r = Ok(TRUE)
    /\ prev.players = Registered

\* C4 (as claimed): in the sequence S0, S1, ... every transition below the
\* 27 ceiling that the other player authors and that occupies exactly one
\* previously empty cell satisfies validate_turn, the transition from turn 8
\* to turn 0 (message_number 8 to 9) included.  validate_turn rejects that one.
C4_SequenceValid ==
    verdict.op = "validate_turn" => verdict.r = Ok(TRUE)

\* the cells in which two boards differ
DifferingCells(self, other) == { i \in Cells : self.board[i] # other.board[i] }

\* C9: compare_boards(prev, next) is true exactly when the boards differ in
\* exactly one cell and that cell is 0 in prev; it is false when the boards
\* are equal, when more than one cell differs, and whenever a cell occupied
\* in prev has another value in next.
C9_CompareBoards ==
    verdict.op = "compare_boards" =>
        LET diff == DifferingCells(prev, next)
        IN  /\ verdict.r <=>
                  (Cardinality(diff) = 1 /\ \A i \in diff : prev.board[i] = 0)
            /\ diff = {} => ~verdict.r
            /\ Cardinality(diff) > 1 => ~verdict.r
            /\ (\E i \in diff : prev.board[i] # 0) => ~verdict.r

\* C9 witness: compare_boards returned false for two boards whose only
\* difference is a cell occupied in prev.
C9_Witness ==
    /\ verdict.op = "compare_boards"
    /\ ~verdict.r
    /\ Cardinality(DifferingCells(prev, next)) = 1
    /\ \E i \in DifferingCells(prev, next) : prev.board[i] # 0

(***************************************************************************)
(* Claims on the store task and handle_connection                          *)
(***************************************************************************)

Announced(c) == out[c] # <<>> /\ out[c][1].len = 16

\* the connection whose handler takes the step, if its request was sent
Sends(c) == conn'[c] # conn[c] /\ Len(queue') > Len(queue)

\* C16: when the client's first handshake message is the 4-byte ack, the
\* handler writes the 16-byte identity it generated for the connection, and
\* every GetState and UpdateState the connection sends afterwards has that
\* identity as its key (whatever the client sends at step 2).
C16_AnnouncedIdentityIsKey ==
    [][\A c \in Conns :
          /\ (conn[c].pc = "hs0" /\ conn'[c].pc = "hs1"
                 /\ conn'[c].frames = <<4>> /\ conn'[c].buffer = AckBytes)
               => out'[c] = <<FrameId(conn[c].player)>>
          /\ (Announced(c) /\ Sends(c))
               => queue'[Len(queue')].player_id = out[c][1].uuid_le]_vars

\* C16 witness: a connection that was sent its identity has a state stored
\* under it and a GetState for it in the channel.
C16_Witness ==
    \E c \in Conns :
        /\ Announced(c)
        /\ out[c][1].uuid_le \in DOMAIN store
        /\ \E k \in DOMAIN queue :
              queue[k].type = "GetState" /\ queue[k].player_id = out[c][1].uuid_le

\* C17 (as claimed): when the client sends the 16-byte token at step 2 of the
\* handshake, the handler's player is the identity of the token from then on
\* and the handshake ends with the ack written.  The read into the 4-byte
\* buffer returns 4, never 16: the token is not adopted and nothing is written.
C17_TokenAdopted ==
    \A c \in Conns :
        (Len(conn[c].frames) = 2 /\ conn[c].frames[2] = TokenLen)
            => /\ conn[c].player = Player_from_bytes(TokenBytes)
               /\ out[c] # <<>>
               /\ conn[c].reads = 0 =>
                     out[c][Len(out[c])] = Frame4(new_data_request(TRUE))

\* C18 (as claimed): a connection whose client sent the 16-byte token at step
\* 1, or a frame of another length than 4 or 16 at either step, has failed
\* and never enters the event loop.  The token at step 1 is read as a 4-byte
\* message and accepted.
C18_BadHandshakeFails ==
    \A c \in Conns :
        \/ (conn[c].frames # <<>> /\ conn[c].frames[1] = TokenLen)
        \/ (\E k \in DOMAIN conn[c].frames : conn[c].frames[k] \notin {0, 4, TokenLen})
        => conn[c].pc = "failed"

C24_ShortReads ==
    [][\A c \in Conns :
          (conn[c].pc = "read" /\ conn'[c] # conn[c] /\ conn'[c].n # BufferLen)
            => /\ queue' = queue
               /\ out' = out
               /\ conn'[c].n = 0 =>
                     (conn'[c].pc = "closed" /\ conn'[c].err = "")
               /\ conn'[c].n \in 1 .. BufferLen - 1 =>
                     (conn'[c].pc = "failed" /\ conn'[c].err = "Invalid request")]_vars

\* C24 witness: one connection ended its event loop on a read of 0 bytes and
\* the other on a read of 3 bytes, after a message each.
C24_Witness ==
    \E c, d \in Conns :
        /\ conn[c].pc = "closed" /\ conn[c].n = 0 /\ conn[c].reads = 1
        /\ conn[d].pc = "failed" /\ conn[d].n = 3 /\ conn[d].reads = 1

RECURSIVE Acks(_)
Acks(frames) ==
    IF frames = <<>> THEN 0
    ELSE (IF Head(frames) = Frame4({31}) THEN 1 ELSE 0) + Acks(Tail(frames))

C25_OverflowDistinct ==
    (res.op = "increment_turn_and_message" /\ ~res.r.ok) =>
        \A m \in Requests : validate_request(m) # res.r

\* C26: a Request that passes validate_request and is stepped successfully
\* yields a Request that passes validate_request, and the empty Request
\* passes validate_request; by induction so does every Request stepped from it.
C26_StepPreservesValidity ==
    /\ res.op = "step_validate" =>
          (res.before.ok /\ res.step.ok => res.after.ok)
    /\ validate_request(new_data_request(FALSE)).ok

\* C26 witness: a valid Request at message_number 8 (turn 8, board and
\* reserved bits set) was stepped across the wrap of the turn and the
\* result passed validate_request.
C26_Witness ==
    /\ res.op = "step_validate"
    /\ res.before.ok
    /\ res.step.ok
    /\ res.after.ok
    /\ FieldMessageNumber(res.arg) = 8
    /\ FieldTurn(res.step.val) = 0
    /\ 9 \in res.arg

\* C27: the state GameState::new creates on first contact admits a legal
\* first move: some Request passes validate_request and, decoded for the
\* registered player who did not author the initial state, makes
\* validate_turn(initial, next) return Ok(true).
C27_LegalFirstMove ==
    \A k \in DOMAIN store :
        store[k].players # NoPlayers =>
            \E m \in Requests : \E i \in 1 .. 2 :
                LET author == store[k].players[i]
                IN  /\ author # store[k].submitted_by
                    /\ validate_request(m).ok
                    /\ validate_turn(store[k], from_request(m, author).val)
                         = Ok(TRUE)

==========================================================================
